---------------------------- MODULE Spec2Model ----------------------------
(***************************************************************************)
(* Promotion orchestration of kargo's API server: PromoteSubscribers and   *)
(* findStageSubscribers (internal/api/promote_subscribers_v1alpha1.go),    *)
(* PromoteStage (as exercised by internal/api/promote_stage_v1alpha1_test) *)
(* and the collaborators they call.                                        *)
(***************************************************************************)
EXTENDS Naturals, Sequences, FiniteSets, TLC

\* ------------------------------------------------------------------ bounds
MaxUpstreams == 2   \* upstream entries one Stage may declare
MaxEntries == 2     \* upstream entries declared in the whole stage store
MaxQualified == 1   \* Stages the Freight has been verified for
MaxRequests == 2    \* requests served one after the other
MaxEdits == 1       \* store changes made by other clients during one request
MaxArgs == 3        \* names given to the delete command

\* --------------------------------------------------------------- universe
StageNames == {"A", "B", "C"}
Project == "p"
Freight == "f"
Ops == {"PromoteSubscribers", "PromoteStage"}

\* The requests a client may send: any field may be left empty.
ReqProjects == {"", Project}
ReqStages == {"", "A"}
ReqFreights == {"", Freight}

VARIABLES
    stages,         \* the Stage store of the project: name -> Stage or absent
    qualified,      \* the Stages the Freight is verified for (external evidence)
    promotions,     \* the Promotion resources created in the store
    nextId,         \* source of fresh Promotion identities
    served,         \* requests received so far
    req,            \* the request being handled
    pc,             \* position of the handler
    stage,          \* the Stage read by getStageFn
    subscribers,    \* the result of findStageSubscribersFn
    promoteErrs,    \* errors collected by the fan-out loop
    createdPromos,  \* Promotions collected by the fan-out loop
    listed,         \* allStages.Items as the List call of the request returned it
    attempted,      \* log of the createPromotionFn calls: Stage, identity, outcome
    calls,          \* what each other collaborator returned to the request
    res,            \* the response returned (has = FALSE: nil)
    err,            \* the error returned (code "OK": nil)
    edits,          \* edits operators made to the Stage store since Init
    cliArgs,        \* kargo delete stage: the NAME arguments
    cliProject,     \* kargo delete stage: opt.Project.OrElse("")
    cliPc,          \* kargo delete stage: position of RunE
    deleteLog,      \* kargo delete stage: the DeleteStage calls and their outcome
    out,            \* kargo delete stage: names printed as "Stage Deleted"
    resErr          \* kargo delete stage: the error RunE returns

\* What the API handlers leave alone.
sideVars == <<edits, cliArgs, cliProject, cliPc, deleteLog, out, resErr>>

\* What the delete command and the operators leave alone.
handlerVars == <<qualified, promotions, nextId, served, req, pc, stage, subscribers,
                 promoteErrs, createdPromos, listed, attempted, calls, res, err>>

vars == <<stages, handlerVars, sideVars>>

\* ------------------------------------------------------------ data model
UpstreamLists == UNION {[1..k -> StageNames] : k \in 0..MaxUpstreams}

\* A Stage as stored: Spec may be nil, Spec.Subscriptions may be nil.
StageShapes ==
    {[exists |-> TRUE, specNil |-> TRUE, subsNil |-> TRUE, upstreams |-> <<>>],
     [exists |-> TRUE, specNil |-> FALSE, subsNil |-> TRUE, upstreams |-> <<>>]}
    \cup {[exists |-> TRUE, specNil |-> FALSE, subsNil |-> FALSE, upstreams |-> u] :
            u \in UpstreamLists}

Absent == [exists |-> FALSE, specNil |-> TRUE, subsNil |-> TRUE, upstreams |-> <<>>]

RECURSIVE SumLen(_, _)
SumLen(st, names) ==
    IF names = {} THEN 0
    ELSE LET n == CHOOSE x \in names : TRUE
         IN Len(st[n].upstreams) + SumLen(st, names \ {n})

Stores ==
    {st \in [StageNames -> StageShapes \cup {Absent}] :
        SumLen(st, StageNames) <= MaxEntries}

\* The Stage object of a name, as a reader or lister returns it.
StageObj(st, n) ==
    [name |-> n, specNil |-> st[n].specNil, subsNil |-> st[n].subsNil,
     upstreams |-> st[n].upstreams]

NoStage == [name |-> "", specNil |-> TRUE, subsNil |-> TRUE, upstreams |-> <<>>]

\* What a Get of the name returns: the Stage, or nil.
ReadStage(st, n) == IF st[n].exists THEN StageObj(st, n) ELSE NoStage

\* The listings a List call may yield: every stored Stage once, in any order.
Listings(st) ==
    LET present == {n \in StageNames : st[n].exists}
        k == Cardinality(present)
    IN {[i \in 1..k |-> StageObj(st, f[i])] :
          f \in {g \in [1..k -> present] : \A i, j \in 1..k : g[i] = g[j] => i = j}}

\* ---------------------------------------------------------------- errors
NoErr == [code |-> "OK", fmt |-> "", args |-> <<>>]
NoRes == [has |-> FALSE, promotions |-> <<>>]

ConnectError(code, fmt, args) == [code |-> code, fmt |-> fmt, args |-> args]

\* The error a failing store or gate call returns.
StoreErr == "something went wrong"
\* The error createPromotionFn returns for the Promotion of a Stage.
CreateErr(target) == "create Promotion for " \o target \o ": something went wrong"

\* Mutant: a collaborator failure is reported with another code.
InternalErrorUnknown(msg) == ConnectError("Unknown", msg, <<>>)

\* connect.NewError(connect.CodeInternal, err): Internal with the message of err.
InternalError(msg) == ConnectError("Internal", msg, <<>>)

\* findStageSubscribers wraps the error of List as Internal before returning it.
ListError(msg) == ConnectError("Internal", msg, <<>>)

\* Error() of a connect error: its code, then its message.
ErrorText(e) == "internal: " \o e.fmt

\* Mutant: the validator's error is wrapped as Internal like the other errors.
ProjectErrorReturnWrapped(e) == ConnectError("Internal", e.fmt, e.args)

\* What the handlers return when validateProjectFn fails: its error, as it is.
ProjectErrorReturn(e) == e

\* The errors the project validator may return, of its own kinds.
ProjectErrors ==
    {ConnectError("NotFound", "project %q not found", <<Project>>),
     ConnectError("Plain", StoreErr, <<>>)}


\* ------------------------------------------------- findStageSubscribers
\* The inner loop: s is appended once for every upstream entry naming target.
RECURSIVE AppendMatches(_, _, _, _)
AppendMatches(acc, s, ups, target) ==
    IF ups = <<>> THEN acc
    ELSE AppendMatches(IF Head(ups) # target THEN acc ELSE Append(acc, s),
                       s, Tail(ups), target)

\* Mutant: a Stage is never reported as its own subscriber.
ScanStageSkipSelf(acc, s, target) ==
    IF s.subsNil \/ s.name = target THEN acc
    ELSE AppendMatches(acc, s, s.upstreams, target)

\* The body of the outer loop: a Stage without Subscriptions is skipped.
ScanStage(acc, s, target) ==
    IF s.subsNil THEN acc ELSE AppendMatches(acc, s, s.upstreams, target)

\* The outer loop over allStages.Items.
RECURSIVE ScanStages(_, _, _)
ScanStages(acc, items, target) ==
    IF items = <<>> THEN acc
    ELSE ScanStages(ScanStage(acc, Head(items), target), Tail(items), target)

\* s.Spec.Subscriptions dereferences Spec: a listed Stage with a nil Spec panics.
ListPanics(items) == \E i \in 1..Len(items) : items[i].specNil

findStageSubscribers(items, target) == ScanStages(<<>>, items, target)

\* ------------------------------------------------------- collaborators
\* validateProjectAndStageNonEmpty: project and stage must be non-empty.
validateProjectAndStageNonEmpty(project, stageName) ==
    IF project = ""
    THEN ConnectError("InvalidArgument", "project should not be empty", <<>>)
    ELSE IF stageName = ""
    THEN ConnectError("InvalidArgument", "stage should not be empty", <<>>)
    ELSE NoErr

\* The input validation both operations start with: project and stage only.
InputError(r) == validateProjectAndStageNonEmpty(r.project, r.stage)

\* The qualification gate: the Freight record iff the named Freight exists and
\* is verified for at least one of the candidate Stages.
getQualifiedFreight(freightName, candidates) ==
    freightName = Freight /\ qualified \cap candidates # {}

\* Mutant: the identity is derived from the Stage and the Freight alone.
NewPromotionKeyed(stageName, freightName) ==
    [id |-> 0, stage |-> stageName, freight |-> freightName]

\* kargo.NewPromotion: a Promotion for the Stage and Freight, with a fresh identity.
NewPromotion(stageName, freightName) ==
    [id |-> nextId, stage |-> stageName, freight |-> freightName]

\* Mutant: the Promotion targets the Stage named in the request.
SubscriberPromotionOfNamed(subscriber, r) == NewPromotion(r.stage, r.freight)

\* The Promotion the fan-out loop builds for a subscriber: it targets the
\* subscriber and carries the Freight name of the request.
SubscriberPromotion(subscriber, r) == NewPromotion(subscriber.name, r.freight)

\* typesv1alpha1.ToPromotionProto: the wire form of a Promotion.
ToPromotionProto(p) == [name |-> p.id, stage |-> p.stage, freight |-> p.freight]

\* The names of a Stage's declared upstreams.
UpstreamNames(s) == {s.upstreams[i] : i \in 1..Len(s.upstreams)}

\* Mutant: the upstreams of the Stage are left out.
StageCandidatesOwnOnly(r, s) == {r.stage}

\* The candidate Stages PromoteStage hands to the gate.
StageCandidates(r, s) == {r.stage} \cup UpstreamNames(s)

\* Mutant: the upstreams of the named Stage are candidates too.
SubscribersCandidatesWithUpstreams(r, s) == {r.stage} \cup UpstreamNames(s)

\* The candidate Stages PromoteSubscribers hands to the gate.
SubscribersCandidates(r, s) == {r.stage}

Candidates(r, s) ==
    IF r.op = "PromoteSubscribers" THEN SubscribersCandidates(r, s)
    ELSE StageCandidates(r, s)

\* Mutants: a nil result is not detected.
StageIsNilNever(got) == FALSE
FreightIsNilNever(found) == FALSE
NoSubscribersNever(subs) == FALSE

\* The tests the handler branches on.
StageIsNil(got) == got = NoStage
FreightIsNil(found) == ~found
NoSubscribers(subs) == Len(subs) = 0
\* Mutant: the loop ends after the first subscriber.
LoopOverFirstOnly(n, subs, errs) == n >= 1

\* Mutant: the loop stops at the first failed write.
LoopOverShortCircuit(n, subs, errs) == n = Len(subs) \/ Len(errs) > 0

\* The range loop ends after the last subscriber; a failed write continues.
LoopOver(n, subs, errs) == n = Len(subs)

\* Mutant: a failed write discards the Promotions that were created.
SubscribersReturnNilOnError(created, errs) ==
    IF Len(errs) > 0
    THEN [res |-> NoRes, err |-> ConnectError("Internal", "join", errs)]
    ELSE [res |-> [has |-> TRUE, promotions |-> created], err |-> NoErr]

\* Mutant: only the first failure is reported.
SubscribersReturnFirstError(created, errs) ==
    IF Len(errs) > 0
    THEN [res |-> [has |-> TRUE, promotions |-> created],
          err |-> ConnectError("Internal", "join", <<Head(errs)>>)]
    ELSE [res |-> [has |-> TRUE, promotions |-> created], err |-> NoErr]

\* What PromoteSubscribers returns after the loop: the response with the
\* created Promotions and, if a write failed, the joined errors as Internal.
SubscribersReturn(created, errs) ==
    IF Len(errs) > 0
    THEN [res |-> [has |-> TRUE, promotions |-> created],
          err |-> ConnectError("Internal", "join", errs)]
    ELSE [res |-> [has |-> TRUE, promotions |-> created], err |-> NoErr]

\* ------------------------------------------------------------- handler
Finish(r, e) ==
    /\ pc' = "done"
    /\ res' = r
    /\ err' = e

NoRequest == [op |-> "", project |-> "", stage |-> "", freight |-> ""]
NoCalls == [validateProject |-> "none", validateProjectErr |-> NoErr,
            getStage |-> "none", getQualifiedFreight |-> "none",
            listStages |-> "none"]

\* The delete command has returned no error (nil).
NoCliErr == [msg |-> "", joined |-> <<>>]

Requests ==
    [op : Ops, project : ReqProjects, stage : ReqStages, freight : ReqFreights]

HandlerIdle ==
    /\ promotions = {}
    /\ nextId = 1
    /\ served = 0
    /\ req = NoRequest
    /\ pc = "idle"
    /\ stage = NoStage
    /\ subscribers = <<>>
    /\ promoteErrs = <<>>
    /\ createdPromos = <<>>
    /\ listed = <<>>
    /\ attempted = <<>>
    /\ calls = NoCalls
    /\ res = NoRes
    /\ err = NoErr
    /\ edits = <<>>

\* The delete command is not running.
CliOff ==
    /\ cliArgs = <<>>
    /\ cliProject = ""
    /\ cliPc = "off"
    /\ deleteLog = <<>>
    /\ out = <<>>
    /\ resErr = NoCliErr

Idle == HandlerIdle /\ CliOff

Init ==
    /\ stages \in Stores
    /\ qualified \in {q \in SUBSET StageNames : Cardinality(q) <= MaxQualified}
    /\ Idle

\* A request arrives and passes or fails the input validation.
Accept(r) ==
    /\ req' = r
    /\ served' = served + 1
    /\ IF InputError(r) # NoErr
       THEN Finish(NoRes, InputError(r))
       ELSE /\ pc' = "validateProject"
            /\ res' = NoRes
            /\ err' = NoErr
    /\ stage' = NoStage
    /\ subscribers' = <<>>
    /\ promoteErrs' = <<>>
    /\ createdPromos' = <<>>
    /\ listed' = <<>>
    /\ attempted' = <<>>
    /\ calls' = NoCalls
    /\ UNCHANGED sideVars
    /\ UNCHANGED <<stages, qualified, promotions, nextId>>

\* The first request of the server.
Receive ==
    /\ pc = "idle"
    /\ \E r \in Requests : Accept(r)

\* A further request, after the previous one returned (or panicked).
ReceiveNext ==
    /\ pc \in {"done", "panic"}
    /\ served < MaxRequests
    /\ \E r \in Requests : Accept(r)

\* s.validateProjectFn: its error is returned as it is.
ValidateProject ==
    /\ pc = "validateProject"
    /\ \/ /\ calls' = [calls EXCEPT !.validateProject = "ok"]
          /\ pc' = "getStage"
          /\ UNCHANGED <<res, err>>
       \/ \E e \in ProjectErrors :
            /\ calls' = [calls EXCEPT !.validateProject = "err",
                                      !.validateProjectErr = e]
            /\ Finish(NoRes, ProjectErrorReturn(e))
    /\ UNCHANGED sideVars
    /\ UNCHANGED <<stages, qualified, promotions, nextId, served, req, stage,
                   subscribers, promoteErrs, createdPromos, listed, attempted>>

\* s.getStageFn: an error is Internal, a nil Stage is NotFound.
GetStage ==
    /\ pc = "getStage"
    /\ \/ /\ calls' = [calls EXCEPT !.getStage = "err"]
          /\ Finish(NoRes, InternalError(StoreErr))
          /\ UNCHANGED stage
       \/ LET got == ReadStage(stages, req.stage)
          IN /\ calls' = [calls EXCEPT !.getStage = IF got = NoStage THEN "nil" ELSE "found"]
             /\ IF StageIsNil(got)
                THEN /\ Finish(NoRes, ConnectError("NotFound",
                                                   "Stage %q not found in namespace %q",
                                                   <<req.stage, req.project>>))
                     /\ UNCHANGED stage
                ELSE /\ stage' = got
                     /\ pc' = "getFreight"
                     /\ UNCHANGED <<res, err>>
    /\ UNCHANGED sideVars
    /\ UNCHANGED <<stages, qualified, promotions, nextId, served, req,
                   subscribers, promoteErrs, createdPromos, listed, attempted>>

\* s.getQualifiedFreightFn: an error is Internal, a nil Freight is NotFound.
GetQualifiedFreight ==
    /\ pc = "getFreight"
    /\ \/ /\ calls' = [calls EXCEPT !.getQualifiedFreight = "err"]
          /\ Finish(NoRes, InternalError(StoreErr))
       \/ LET found == getQualifiedFreight(req.freight, Candidates(req, stage))
          IN /\ calls' = [calls EXCEPT
                            !.getQualifiedFreight = IF found THEN "found" ELSE "nil"]
             /\ IF FreightIsNil(found)
                THEN Finish(NoRes, ConnectError("NotFound",
                                                "no qualified Freight %q found in namespace %q",
                                                <<req.freight, req.project>>))
                ELSE /\ pc' = IF req.op = "PromoteSubscribers" THEN "findSubscribers"
                              ELSE "createPromotion"
                     /\ UNCHANGED <<res, err>>
    /\ UNCHANGED sideVars
    /\ UNCHANGED <<stages, qualified, promotions, nextId, served, req, stage,
                   subscribers, promoteErrs, createdPromos, listed, attempted>>

\* s.findStageSubscribersFn and the len(subscribers) == 0 test after it.
FindSubscribers ==
    /\ pc = "findSubscribers"
    /\ \/ /\ calls' = [calls EXCEPT !.listStages = "err"]
          /\ Finish(NoRes, InternalError(ErrorText(ListError(StoreErr))))
          /\ UNCHANGED <<subscribers, listed>>
       \/ \E items \in Listings(stages) :
            /\ listed' = items
            /\ IF ListPanics(items)
               THEN /\ calls' = [calls EXCEPT !.listStages = "panic"]
                    /\ pc' = "panic"
                    /\ UNCHANGED <<res, err, subscribers>>
               ELSE LET subs == findStageSubscribers(items, stage.name)
                    IN /\ calls' = [calls EXCEPT !.listStages = "ok"]
                       /\ IF NoSubscribers(subs)
                          THEN /\ Finish(NoRes, ConnectError("NotFound",
                                                             "Stage %q has no subscribers",
                                                             <<req.stage>>))
                               /\ UNCHANGED subscribers
                          ELSE /\ subscribers' = subs
                               /\ pc' = "fanOut"
                               /\ UNCHANGED <<res, err>>
    /\ UNCHANGED sideVars
    /\ UNCHANGED <<stages, qualified, promotions, nextId, served, req, stage,
                   promoteErrs, createdPromos, attempted>>

\* One iteration of the fan-out loop of PromoteSubscribers.
CreateSubscriberPromotion ==
    /\ pc = "fanOut"
    /\ ~LoopOver(Len(attempted), subscribers, promoteErrs)
    /\ LET subscriber == subscribers[Len(attempted) + 1]
           newPromo == SubscriberPromotion(subscriber, req)
       IN /\ nextId' = nextId + 1
          /\ \/ /\ attempted' = Append(attempted, [stage |-> newPromo.stage,
                                                   id |-> newPromo.id, ok |-> FALSE])
                /\ promoteErrs' = Append(promoteErrs, CreateErr(newPromo.stage))
                /\ UNCHANGED <<createdPromos, promotions>>
             \/ /\ attempted' = Append(attempted, [stage |-> newPromo.stage,
                                                   id |-> newPromo.id, ok |-> TRUE])
                /\ promotions' = promotions \cup {newPromo}
                /\ createdPromos' = Append(createdPromos, ToPromotionProto(newPromo))
                /\ UNCHANGED promoteErrs
    /\ UNCHANGED sideVars
    /\ UNCHANGED <<stages, qualified, served, req, pc, stage, subscribers, listed,
                   calls, res, err>>

\* The return of PromoteSubscribers after the loop.
ReturnSubscribers ==
    /\ pc = "fanOut"
    /\ LoopOver(Len(attempted), subscribers, promoteErrs)
    /\ Finish(SubscribersReturn(createdPromos, promoteErrs).res,
              SubscribersReturn(createdPromos, promoteErrs).err)
    /\ UNCHANGED sideVars
    /\ UNCHANGED <<stages, qualified, promotions, nextId, served, req, stage,
                   subscribers, promoteErrs, createdPromos, listed, attempted, calls>>

\* PromoteStage: build and persist the Promotion of the target Stage.
CreateStagePromotion ==
    /\ pc = "createPromotion"
    /\ LET newPromo == NewPromotion(stage.name, req.freight)
       IN /\ nextId' = nextId + 1
          /\ \/ /\ attempted' = Append(attempted, [stage |-> stage.name,
                                                   id |-> newPromo.id, ok |-> FALSE])
                /\ Finish(NoRes, InternalError(StoreErr))
                /\ UNCHANGED promotions
             \/ /\ attempted' = Append(attempted, [stage |-> stage.name,
                                                   id |-> newPromo.id, ok |-> TRUE])
                /\ promotions' = promotions \cup {newPromo}
                /\ Finish([has |-> TRUE, promotions |-> <<ToPromotionProto(newPromo)>>],
                          NoErr)
    /\ UNCHANGED sideVars
    /\ UNCHANGED <<stages, qualified, served, req, stage, subscribers,
                   promoteErrs, createdPromos, listed, calls>>

Next ==
    \/ Receive
    \/ ValidateProject
    \/ GetStage
    \/ GetQualifiedFreight
    \/ FindSubscribers
    \/ CreateSubscriberPromotion
    \/ ReturnSubscribers
    \/ CreateStagePromotion

\* One request against any stage store.
Spec == Init /\ [][Next]_vars

\* Requests served one after the other, against the stores of Stages A and B.
InitRepeat ==
    /\ Init
    /\ ~stages["C"].exists

NextRepeat == Next \/ ReceiveNext

SpecRepeat == InitRepeat /\ [][NextRepeat]_vars

\* findStageSubscribers applied to every listing and every target Stage.
InitFind == Init

Resolve ==
    /\ pc = "idle"
    /\ \E target \in StageNames, items \in Listings(stages) :
         /\ stage' = [NoStage EXCEPT !.name = target]
         /\ listed' = items
         /\ IF ListPanics(items)
            THEN /\ pc' = "panic"
                 /\ UNCHANGED subscribers
            ELSE /\ pc' = "resolved"
                 /\ subscribers' = findStageSubscribers(items, target)
    /\ UNCHANGED sideVars
    /\ UNCHANGED <<stages, qualified, promotions, nextId, served, req,
                   promoteErrs, createdPromos, attempted, calls, res, err>>

NextFind == Resolve

SpecFind == InitFind /\ [][NextFind]_vars

\* ------------------------------------------------- concurrent store changes
\* PromoteSubscribers reads the shared store three times (getStageFn, the gate,
\* s.client.List) and takes no lock: other clients change the store between
\* and after these reads. Each change is logged with the progress of the
\* request at that moment.
RaceNames == {"A", "B"}
RaceRequest ==
    [op |-> "PromoteSubscribers", project |-> Project, stage |-> "A", freight |-> Freight]

EditMark(kind, n) ==
    [kind |-> kind, name |-> n, listed |-> calls.listStages = "ok",
     writes |-> Len(attempted)]

InFlight == pc \in {"validateProject", "getStage", "getFreight", "findSubscribers", "fanOut"}

\* Another client deletes Stage n.
RemoveStage(n) ==
    /\ InFlight /\ Len(edits) < MaxEdits
    /\ stages[n].exists
    /\ stages' = [stages EXCEPT ![n] = Absent]
    /\ edits' = Append(edits, EditMark("remove", n))
    /\ UNCHANGED <<handlerVars, cliArgs, cliProject, cliPc, deleteLog, out, resErr>>

\* A Stage with a Spec and the given upstream list.
Subscribed(ups) == [exists |-> TRUE, specNil |-> FALSE, subsNil |-> FALSE, upstreams |-> ups]

\* Another client creates Stage n, or updates it, as a subscriber of Stage up.
Subscribe(n, up) ==
    /\ InFlight /\ Len(edits) < MaxEdits
    /\ up \notin UpstreamNames(stages[n])
    /\ stages' = [stages EXCEPT ![n] = Subscribed(<<up>>)]
    /\ edits' = Append(edits, EditMark("subscribe", n))
    /\ UNCHANGED <<handlerVars, cliArgs, cliProject, cliPc, deleteLog, out, resErr>>

\* Another client empties the upstream list of Stage n.
Unsubscribe(n) ==
    /\ InFlight /\ Len(edits) < MaxEdits
    /\ stages[n].exists /\ stages[n].upstreams # <<>>
    /\ stages' = [stages EXCEPT ![n] = Subscribed(<<>>)]
    /\ edits' = Append(edits, EditMark("unsubscribe", n))
    /\ UNCHANGED <<handlerVars, cliArgs, cliProject, cliPc, deleteLog, out, resErr>>

\* The Freight loses its qualification for Stage n.
Disqualify(n) ==
    /\ InFlight /\ Len(edits) < MaxEdits
    /\ n \in qualified
    /\ qualified' = qualified \ {n}
    /\ edits' = Append(edits, EditMark("disqualify", n))
    /\ UNCHANGED <<stages, promotions, nextId, served, req, pc, stage, subscribers,
                   promoteErrs, createdPromos, listed, attempted, calls, res, err,
                   cliArgs, cliProject, cliPc, deleteLog, out, resErr>>

InitRace ==
    /\ Init
    /\ ~stages["C"].exists
    /\ \A n \in RaceNames : stages[n].exists => ~stages[n].specNil

ReceiveRace ==
    /\ pc = "idle"
    /\ Accept(RaceRequest)

NextRace ==
    \/ ReceiveRace
    \/ ValidateProject
    \/ GetStage
    \/ GetQualifiedFreight
    \/ FindSubscribers
    \/ CreateSubscriberPromotion
    \/ ReturnSubscribers
    \/ \E n \in RaceNames : RemoveStage(n)
    \/ \E n \in RaceNames : Subscribe(n, RaceRequest.stage)
    \/ \E n \in RaceNames : Unsubscribe(n)
    \/ \E n \in StageNames : Disqualify(n)

\* One PromoteSubscribers request while other clients change the store.
SpecRace == InitRace /\ [][NextRace]_vars

\* ------------------------------------------------------- the delete command
CliNames == {"A", "B"}
ArgLists == UNION {[1..k -> CliNames] : k \in 1..MaxArgs}

\* Mutant: every repeated name is removed, wherever it occurs.
RECURSIVE CompactAll(_)
CompactAll(a) ==
    IF a = <<>> THEN <<>>
    ELSE LET front == CompactAll(SubSeq(a, 1, Len(a) - 1))
             last == a[Len(a)]
         IN IF \E i \in 1..Len(front) : front[i] = last
            THEN front ELSE Append(front, last)

\* slices.Compact: replaces consecutive runs of equal elements with one copy.
RECURSIVE Compact(_)
Compact(a) ==
    IF Len(a) <= 1 THEN a
    ELSE LET front == Compact(SubSeq(a, 1, Len(a) - 1))
             last == a[Len(a)]
         IN IF front[Len(front)] = last THEN front ELSE Append(front, last)

CliErr(msg) == [msg |-> msg, joined |-> <<>>]

\* pkgerrors.Wrap(err, "Error") of the error DeleteStage returned for name.
DeleteErr(name) == "Error: delete " \o name \o ": something went wrong"

\* Mutant: the error of the latest failure replaces the earlier ones.
JoinKeepLast(e, msg) == [msg |-> "", joined |-> <<msg>>]

\* errors.Join(resErr, err): nil operands are dropped, the others are kept in order.
Join(e, msg) == [msg |-> "", joined |-> Append(e.joined, msg)]

\* Mutant: the loop ends at the first failed delete.
DeleteLoopOverOnFailure(log, names) ==
    Len(log) = Len(names) \/ \E i \in 1..Len(log) : ~log[i].ok

\* for _, name := range slices.Compact(args)
DeleteLoopOver(log, names) == Len(log) = Len(names)

InitDelete ==
    /\ stages = [n \in StageNames |-> Absent]
    /\ qualified = {}
    /\ HandlerIdle
    /\ cliArgs \in ArgLists
    /\ cliProject \in {"", Project}
    /\ cliPc = "start"
    /\ deleteLog = <<>>
    /\ out = <<>>
    /\ resErr = NoCliErr

\* client.GetClientFromConfig
GetClient ==
    /\ cliPc = "start"
    /\ \/ /\ resErr' = CliErr("get client from config")
          /\ cliPc' = "exit"
       \/ /\ cliPc' = "project"
          /\ UNCHANGED resErr
    /\ UNCHANGED <<stages, handlerVars, edits, cliArgs, cliProject, deleteLog, out>>

\* project := opt.Project.OrElse(""); an empty project is an error.
CheckProject ==
    /\ cliPc = "project"
    /\ IF cliProject = ""
       THEN /\ resErr' = CliErr("project is required")
            /\ cliPc' = "exit"
       ELSE /\ cliPc' = "loop"
            /\ UNCHANGED resErr
    /\ UNCHANGED <<stages, handlerVars, edits, cliArgs, cliProject, deleteLog, out>>

\* One iteration of the loop: kargoSvcCli.DeleteStage for the next name.
DeleteOne ==
    /\ cliPc = "loop"
    /\ ~DeleteLoopOver(deleteLog, Compact(cliArgs))
    /\ LET name == Compact(cliArgs)[Len(deleteLog) + 1]
       IN \/ /\ deleteLog' = Append(deleteLog, [name |-> name, ok |-> FALSE])
             /\ resErr' = Join(resErr, DeleteErr(name))
             /\ UNCHANGED out
          \/ /\ deleteLog' = Append(deleteLog, [name |-> name, ok |-> TRUE])
             /\ out' = Append(out, "Stage Deleted: " \o name)
             /\ UNCHANGED resErr
    /\ UNCHANGED <<stages, handlerVars, edits, cliArgs, cliProject, cliPc>>

\* return resErr
ReturnDelete ==
    /\ cliPc = "loop"
    /\ DeleteLoopOver(deleteLog, Compact(cliArgs))
    /\ cliPc' = "exit"
    /\ UNCHANGED <<stages, handlerVars, edits, cliArgs, cliProject, deleteLog, out, resErr>>

NextDelete ==
    \/ GetClient
    \/ CheckProject
    \/ DeleteOne
    \/ ReturnDelete

\* One run of the delete command over every argument list.
SpecDelete == InitDelete /\ [][NextDelete]_vars

\* ------------------------------------------------------------ properties
\* The writes of the request that succeeded and that failed, in call order.
IsOk(a) == a.ok
IsFailed(a) == ~a.ok
OkWrites == SelectSeq(attempted, IsOk)
FailedWrites == SelectSeq(attempted, IsFailed)

\* The Promotion, in wire form, that a logged write created.
WrittenProto(a) == [name |-> a.id, stage |-> a.stage, freight |-> req.freight]
OkProtos == [i \in 1..Len(OkWrites) |-> WrittenProto(OkWrites[i])]
FailedErrs == [i \in 1..Len(FailedWrites) |-> CreateErr(FailedWrites[i].stage)]

Returned == pc = "done"
FannedOut == req.op = "PromoteSubscribers" /\ calls.listStages = "ok" /\ subscribers # <<>>

\* C1: when PromoteSubscribers returns after some writes failed and some
\* succeeded, the response carries the Promotion of every successful write and
\* the error is Internal and reflects every failed write.
C1_PartialFailure ==
    (Returned /\ FannedOut /\ OkWrites # <<>> /\ FailedWrites # <<>>)
        => /\ res.has
           /\ res.promotions = OkProtos
           /\ \A i \in 1..Len(OkProtos) :
                \E p \in promotions : ToPromotionProto(p) = res.promotions[i]
           /\ err.code = "Internal"
           /\ err.args = FailedErrs

\* Stage A with two different subscribers: one write failed, the other succeeded.
C1_Witness ==
    /\ Returned /\ FannedOut
    /\ \E i, j \in 1..Len(attempted) :
         /\ attempted[i].ok /\ ~attempted[j].ok
         /\ attempted[i].stage # attempted[j].stage
         /\ attempted[j].stage # req.stage

\* C2: no short-circuit. While the fan-out runs, the writes attempted are those
\* of a prefix of the resolved subscribers; the call returns only when a write
\* has been attempted for every resolved subscriber, whatever the outcomes.
C2_NoShortCircuit ==
    FannedOut =>
        /\ Len(attempted) <= Len(subscribers)
        /\ \A i \in 1..Len(attempted) : attempted[i].stage = subscribers[i].name
        /\ Returned => Len(attempted) = Len(subscribers)
        /\ (pc = "fanOut" /\ Len(attempted) < Len(subscribers))
              => ENABLED CreateSubscriberPromotion

\* The first write failed and the call still went on to the second subscriber.
C2_Witness ==
    /\ Returned /\ FannedOut
    /\ Len(subscribers) >= 2
    /\ ~attempted[1].ok
    /\ Len(attempted) = Len(subscribers)

\* C3: when the qualification gate returns absent the request ends NotFound
\* with no response and no write attempted; every write attempt, hence every
\* Promotion written, follows a gate answer of a qualified Freight in the same
\* request.
C3_GateAbsentNoWrite ==
    /\ calls.getQualifiedFreight = "nil"
          => /\ Returned
             /\ err.code = "NotFound"
             /\ err.fmt = "no qualified Freight %q found in namespace %q"
             /\ ~res.has
             /\ attempted = <<>>
             /\ promotions = {}
             /\ calls.listStages = "none"
    /\ attempted # <<>> => calls.getQualifiedFreight = "found"
    /\ promotions # {} => calls.getQualifiedFreight = "found"
    /\ calls.getQualifiedFreight = "found"
          => getQualifiedFreight(req.freight, Candidates(req, stage))

\* The gate answered absent for a Stage that has a subscriber waiting.
C3_Witness ==
    /\ calls.getQualifiedFreight = "nil"
    /\ req.op = "PromoteSubscribers"
    /\ req.freight = Freight
    /\ \E n \in StageNames : stages[n].exists /\ req.stage \in UpstreamNames(stages[n])

\* C4: a request with an empty project, stage name or freight name fails with
\* InvalidArgument and no collaborator is invoked.
C4_EmptyInputRejected ==
    (pc # "idle" /\ (req.project = "" \/ req.stage = "" \/ req.freight = ""))
        => /\ calls = NoCalls
           /\ attempted = <<>>
           /\ Returned => err.code = "InvalidArgument"

\* C5: when the stage reader returns absent the request ends NotFound, the
\* message carries the stage name and the project namespace, and neither the
\* gate, the lister nor the creator is called.
C5_StageAbsent ==
    calls.getStage = "nil"
        => /\ Returned
           /\ err.code = "NotFound"
           /\ err.fmt = "Stage %q not found in namespace %q"
           /\ err.args = <<req.stage, req.project>>
           /\ ~res.has
           /\ calls.getQualifiedFreight = "none"
           /\ calls.listStages = "none"
           /\ attempted = <<>>
           /\ promotions = {}

\* The target Stage is missing while the Freight is qualified for it and another
\* Stage subscribes to it.
C5_Witness ==
    /\ calls.getStage = "nil"
    /\ ~stages[req.stage].exists
    /\ req.stage \in qualified
    /\ req.freight = Freight
    /\ \E n \in StageNames : stages[n].exists /\ req.stage \in UpstreamNames(stages[n])

\* No Stage of the listing the request saw declares the requested Stage upstream.
NobodySubscribes ==
    \A i \in 1..Len(listed) :
        listed[i].subsNil \/ req.stage \notin UpstreamNames(listed[i])

\* C7: PromoteSubscribers on an existing Stage with qualified Freight and zero
\* subscribers ends NotFound "has no subscribers" with zero writes attempted.
C7_NoSubscribers ==
    (req.op = "PromoteSubscribers" /\ calls.listStages = "ok" /\ NobodySubscribes)
        => /\ Returned
           /\ err.code = "NotFound"
           /\ err.fmt = "Stage %q has no subscribers"
           /\ err.args = <<req.stage>>
           /\ ~res.has
           /\ attempted = <<>>
           /\ promotions = {}

\* The Stage exists, the Freight is qualified for it, two other Stages are
\* listed and none subscribes to it.
C7_Witness ==
    /\ req.op = "PromoteSubscribers"
    /\ calls.getStage = "found"
    /\ calls.getQualifiedFreight = "found"
    /\ calls.listStages = "ok"
    /\ NobodySubscribes
    /\ Len(listed) = Cardinality(StageNames)

\* The number of errors the returned error joins.
JoinedErrors == IF err.code = "Internal" /\ err.fmt = "join" THEN Len(err.args) ELSE 0

\* C8: after the fan-out over N >= 1 subscribers the response holds one
\* Promotion per successful write, the error joins the error of every failed
\* write, successes + joined failures = N, the error is nil exactly when no
\* write failed, and N failures give an empty list with an Internal error.
C8_Accounting ==
    (Returned /\ FannedOut)
        => /\ Len(subscribers) >= 1
           /\ res.has
           /\ res.promotions = OkProtos
           /\ JoinedErrors = Len(FailedWrites)
           /\ FailedWrites # <<>> => err.args = FailedErrs
           /\ Len(res.promotions) + JoinedErrors = Len(subscribers)
           /\ err = NoErr <=> FailedWrites = <<>>
           /\ FailedWrites # <<>> => err.code = "Internal"
           /\ Len(FailedWrites) = Len(subscribers)
                 => res.promotions = <<>> /\ err.code = "Internal"

\* Total failure: two subscribers, both writes failed.
C8_Witness ==
    /\ Returned /\ FannedOut
    /\ Len(subscribers) >= 2
    /\ Len(FailedWrites) = Len(subscribers)
    /\ res.has /\ res.promotions = <<>>

\* The listed Stage declares an upstream entry named as the target.
Declares(s, target) == ~s.subsNil /\ \E k \in 1..Len(s.upstreams) : s.upstreams[k] = target
InResult(s) == \E j \in 1..Len(subscribers) : subscribers[j] = s

\* C6: whatever the listing and its order, a listed Stage is in the result of
\* findStageSubscribers iff one of its upstream entries names the target, the
\* target itself included; nothing else is in the result, and a Stage with a
\* nil or empty subscription list is not.
C6_SubscriberIff ==
    pc = "resolved"
        => /\ \A i \in 1..Len(listed) :
                InResult(listed[i]) <=> Declares(listed[i], stage.name)
           /\ \A j \in 1..Len(subscribers) :
                \E i \in 1..Len(listed) : listed[i] = subscribers[j]
           /\ \A i \in 1..Len(listed) :
                (listed[i].subsNil \/ listed[i].upstreams = <<>>) => ~InResult(listed[i])

\* The target lists itself as upstream and is returned, next to a subscriber
\* listed before it and a Stage with no subscriptions.
C6_Witness ==
    /\ pc = "resolved"
    /\ Len(listed) = Cardinality(StageNames)
    /\ \E i, j, k \in 1..Len(listed) :
         /\ i < j
         /\ listed[j].name = stage.name /\ InResult(listed[j])
         /\ listed[i].name # stage.name /\ InResult(listed[i])
         /\ listed[k].subsNil /\ ~InResult(listed[k])

\* C9: in PromoteStage the gate is asked about the Stage's own name and all of
\* its declared upstreams: a Freight qualified for any of them is found, and
\* the call then creates a Promotion for the target Stage unless the write fails.
C9_StageCandidates ==
    (req.op = "PromoteStage" /\ calls.getQualifiedFreight \in {"nil", "found"})
        => /\ calls.getQualifiedFreight = "found"
              <=> /\ req.freight = Freight
                  /\ qualified \cap ({stage.name} \cup UpstreamNames(stage)) # {}
           /\ (Returned /\ calls.getQualifiedFreight = "found" /\ err = NoErr)
                 => /\ res.has
                    /\ Len(res.promotions) = 1
                    /\ res.promotions[1].stage = req.stage
                    /\ res.promotions[1].freight = req.freight
                    /\ \E p \in promotions : ToPromotionProto(p) = res.promotions[1]
           /\ (Returned /\ calls.getQualifiedFreight = "found")
                 => err = NoErr \/ (err.code = "Internal" /\ ~attempted[1].ok)

\* Upstreams {U1, U2}, Freight qualified only for U2, Promotion created.
C9_Witness ==
    /\ req.op = "PromoteStage" /\ Returned /\ err = NoErr
    /\ Len(stage.upstreams) = 2
    /\ stage.upstreams[1] # stage.upstreams[2]
    /\ req.stage \notin UpstreamNames(stage)
    /\ qualified = {stage.upstreams[2]}
    /\ \E p \in promotions : p.stage = req.stage /\ p.freight = Freight

\* C10: a successful PromoteStage always adds one Promotion with an identity
\* no stored Promotion has, also when Promotions of the same Stage and Freight
\* are stored already; stored Promotions stay as they are.
C10_NoIdempotence ==
    [][(pc = "createPromotion" /\ pc' = "done" /\ err'.code = "OK")
          => /\ promotions \subseteq promotions'
             /\ Cardinality(promotions') = Cardinality(promotions) + 1
             /\ \E p \in promotions' \ promotions :
                  /\ p.stage = req.stage /\ p.freight = req.freight
                  /\ \A q \in promotions : q.id # p.id]_vars

\* Two PromoteStage calls with the same arguments have succeeded (no Stage
\* subscribes to the target, so no other call wrote) and left two Promotions.
C10_Witness ==
    /\ Returned /\ req.op = "PromoteStage" /\ err = NoErr
    /\ served = 2
    /\ \A n \in StageNames : req.stage \notin UpstreamNames(stages[n])
    /\ \E p, q \in promotions :
         /\ p.id # q.id
         /\ p.stage = req.stage /\ q.stage = req.stage
         /\ p.freight = req.freight /\ q.freight = req.freight
    /\ Cardinality(promotions) = 2


\* C11: when the project validator fails, the request returns exactly the
\* validator's error, with its own code and message, and no Stage read, gate
\* lookup, listing or write is performed.
C11_ProjectErrorVerbatim ==
    calls.validateProject = "err"
        => /\ Returned
           /\ err = calls.validateProjectErr
           /\ err \in ProjectErrors
           /\ ~res.has
           /\ calls.getStage = "none"
           /\ calls.getQualifiedFreight = "none"
           /\ calls.listStages = "none"
           /\ attempted = <<>>
           /\ promotions = {}

\* The validator refused a well-formed PromoteSubscribers request with an error
\* of a kind of its own, while the Stage exists and has a subscriber.
C11_Witness ==
    /\ calls.validateProject = "err"
    /\ calls.validateProjectErr.code = "NotFound"
    /\ req.op = "PromoteSubscribers" /\ req.freight = Freight
    /\ stages[req.stage].exists
    /\ \E n \in StageNames : stages[n].exists /\ req.stage \in UpstreamNames(stages[n])

\* C12: a failing stage reader, gate or lister ends the request with an
\* Internal error carrying the collaborator's message, before any later step
\* and with no write; a failed write of PromoteStage ends it Internal with no
\* Promotion returned.
C12_CollaboratorFailureInternal ==
    /\ calls.getStage = "err"
          => /\ Returned /\ ~res.has
             /\ err = ConnectError("Internal", StoreErr, <<>>)
             /\ calls.getQualifiedFreight = "none" /\ calls.listStages = "none"
             /\ attempted = <<>>
    /\ calls.getQualifiedFreight = "err"
          => /\ Returned /\ ~res.has
             /\ err = ConnectError("Internal", StoreErr, <<>>)
             /\ calls.listStages = "none"
             /\ attempted = <<>>
    /\ calls.listStages = "err"
          => /\ Returned /\ ~res.has
             /\ err = ConnectError("Internal", "internal: " \o StoreErr, <<>>)
             /\ attempted = <<>>
    /\ (req.op = "PromoteStage" /\ attempted # <<>> /\ ~attempted[1].ok)
          => /\ Returned /\ ~res.has
             /\ err = ConnectError("Internal", StoreErr, <<>>)
             /\ \A p \in promotions : p.id # attempted[1].id

\* The listing failed after the Stage was read and the Freight found qualified,
\* with a subscriber in the store.
C12_Witness ==
    /\ calls.listStages = "err"
    /\ calls.getStage = "found" /\ calls.getQualifiedFreight = "found"
    /\ \E n \in StageNames : stages[n].exists /\ req.stage \in UpstreamNames(stages[n])

\* C13: the resolved list holds each listed Stage at most once, however many of
\* its upstream entries name the target, and one PromoteSubscribers call
\* attempts at most one write per subscriber Stage.
C13_AtMostOnce ==
    FannedOut
        => /\ \A i, j \in 1..Len(subscribers) :
                subscribers[i].name = subscribers[j].name => i = j
           /\ \A i, j \in 1..Len(attempted) :
                attempted[i].stage = attempted[j].stage => i = j

\* C14: PromoteSubscribers asks the gate about the named Stage alone: the
\* Freight is found iff it is qualified for that Stage, and a Freight qualified
\* only for other Stages (upstreams of the named Stage included) ends the
\* request NotFound with no Promotion created.
C14_SubscribersCandidates ==
    (req.op = "PromoteSubscribers" /\ calls.getQualifiedFreight \in {"nil", "found"})
        => /\ calls.getQualifiedFreight = "found"
                <=> (req.freight = Freight /\ req.stage \in qualified)
           /\ req.stage \notin qualified
                => /\ Returned
                   /\ err.code = "NotFound"
                   /\ ~res.has
                   /\ calls.listStages = "none"
                   /\ attempted = <<>>
                   /\ promotions = {}

\* The Freight is qualified only for an upstream of the named Stage, which has
\* a subscriber: the gate answered absent.
C14_Witness ==
    /\ req.op = "PromoteSubscribers" /\ req.freight = Freight
    /\ calls.getQualifiedFreight = "nil"
    /\ qualified # {}
    /\ qualified \subseteq UpstreamNames(stage)
    /\ req.stage \notin qualified
    /\ \E n \in StageNames : stages[n].exists /\ req.stage \in UpstreamNames(stages[n])

\* C16: every write of a PromoteSubscribers call targets the subscriber of its
\* turn in the resolved list, a Stage of the listing that declares the named
\* Stage upstream (the named Stage only if it does), and carries the Freight
\* name of the request; on total success the response holds one Promotion per
\* entry of the resolved list, in its order.
C16_TargetsAndOrder ==
    FannedOut
        => /\ \A i \in 1..Len(attempted) :
                /\ attempted[i].stage = subscribers[i].name
                /\ \E k \in 1..Len(listed) :
                     /\ listed[k].name = attempted[i].stage
                     /\ Declares(listed[k], req.stage)
           /\ \A p \in promotions :
                /\ p.freight = req.freight
                /\ \E i \in 1..Len(attempted) :
                     attempted[i].ok /\ attempted[i].id = p.id /\ attempted[i].stage = p.stage
           /\ (Returned /\ err = NoErr)
                => /\ Len(res.promotions) = Len(subscribers)
                   /\ \A i \in 1..Len(subscribers) :
                        /\ res.promotions[i].stage = subscribers[i].name
                        /\ res.promotions[i].freight = req.freight

\* Total success over two subscribers, one of them the named Stage itself.
C16_Witness ==
    /\ Returned /\ FannedOut /\ err = NoErr
    /\ Len(res.promotions) = 2
    /\ \E i, j \in 1..2 :
         /\ res.promotions[i].stage = req.stage
         /\ res.promotions[j].stage # req.stage
    /\ req.freight = Freight

\* The Stages of the one listing that declare the named Stage upstream, and
\* the Stages the request has attempted a write for.
SeenSubscribers ==
    {listed[k].name : k \in {k \in 1..Len(listed) : Declares(listed[k], req.stage)}}
WriteTargets == {attempted[i].stage : i \in 1..Len(attempted)}

SnapshotFanOut ==
    (req.op = "PromoteSubscribers" /\ calls.listStages = "ok")
        => /\ WriteTargets \subseteq SeenSubscribers
           /\ \A j \in 1..Len(subscribers) : subscribers[j].name \in SeenSubscribers
           /\ (Returned /\ subscribers # <<>>)
                => /\ WriteTargets = SeenSubscribers
                   /\ Len(attempted) = Len(subscribers)

\* C15: while other clients change the store, a PromoteSubscribers call lists
\* the Stages once (the listing and the resolved list never change after the
\* list call), its write targets are within, and at return exactly, the
\* subscribers of that listing whatever the store holds by then, and the Stage
\* it read and the gate's answer stay as first obtained.
C15_SnapshotFanOut ==
    [][ /\ SnapshotFanOut'
        /\ calls.listStages # "none"
             => /\ listed' = listed
                /\ subscribers' = subscribers
                /\ calls'.listStages = calls.listStages
        /\ calls.getStage = "found"
             => stage' = stage /\ calls'.getStage = "found"
        /\ calls.getQualifiedFreight = "found"
             => calls'.getQualifiedFreight = "found"
      ]_vars

\* A subscriber was deleted after the listing and before its turn in the loop,
\* and its Promotion was written all the same.
C15_Witness ==
    /\ Returned /\ FannedOut
    /\ Len(edits) = 1
    /\ edits[1].kind = "remove" /\ edits[1].listed
    /\ ~stages[edits[1].name].exists
    /\ \E i \in 1..Len(attempted) :
         /\ i > edits[1].writes
         /\ attempted[i].stage = edits[1].name
         /\ attempted[i].ok

\* C17: the delete command attempts DeleteStage at most once for each distinct
\* name, wherever the repeated names stand in the argument list.
C17_OneAttemptPerName ==
    \A i, j \in 1..Len(deleteLog) :
        deleteLog[i].name = deleteLog[j].name => i = j

IsDeleted(a) == a.ok
NotDeleted(a) == ~a.ok
Deleted == SelectSeq(deleteLog, IsDeleted)
FailedDeletes == SelectSeq(deleteLog, NotDeleted)

\* C18: with a non-empty project the command attempts a delete for every name
\* given, whatever failed before; it prints "Stage Deleted" for exactly the
\* names whose delete succeeded; it returns nil iff every delete succeeded and
\* otherwise the join of the errors of all failed deletes. An empty project
\* fails before any delete.
C18_ContinuesAndJoins ==
    /\ Len(out) = Len(Deleted)
    /\ \A i \in 1..Len(out) : out[i] = "Stage Deleted: " \o Deleted[i].name
    /\ cliPc \in {"loop", "exit"} /\ resErr.msg = ""
         => /\ cliProject # ""
            /\ resErr.joined = [i \in 1..Len(FailedDeletes) |-> DeleteErr(FailedDeletes[i].name)]
            /\ resErr = NoCliErr <=> FailedDeletes = <<>>
    /\ cliPc = "exit" /\ resErr.msg = ""
         => {deleteLog[i].name : i \in 1..Len(deleteLog)}
              = {cliArgs[i] : i \in 1..Len(cliArgs)}
    /\ cliPc = "exit" /\ cliProject = ""
         => resErr # NoCliErr /\ deleteLog = <<>> /\ out = <<>>

\* The command returned after a failed delete, a successful one and another
\* failed one.
C18_Witness ==
    /\ cliPc = "exit"
    /\ Len(deleteLog) = 3
    /\ ~deleteLog[1].ok /\ deleteLog[2].ok /\ ~deleteLog[3].ok
    /\ Len(resErr.joined) = 2
    /\ Len(out) = 1

\* C19: findStageSubscribers returns normally for every listing, skipping a
\* listed Stage whose Spec or whose subscription list is nil.
C19_ResolvesEveryListing ==
    pc # "idle"
        => /\ pc = "resolved"
           /\ \A i \in 1..Len(listed) :
                (listed[i].specNil \/ listed[i].subsNil) => ~InResult(listed[i])

====
